---- MODULE Spec2Model ----
(***************************************************************************)
(* A model of the entity layer of cacophony-api: the Group model           *)
(* (models/Group.ts), the Event model (models/Event.ts), the Station model *)
(* (models/Station.ts) and the device routes (api/V1/Device.ts).           *)
(*                                                                         *)
(* The relational tables are sets of records.  An optional value (a row    *)
(* that findOne may not find, a nullable column) is a set with at most one *)
(* element for a row and a sequence of length at most one for a column.    *)
(***************************************************************************)
EXTENDS Integers, Sequences, FiniteSets, TLC

(***************************************************************************)
(* Bounds of the model.                                                    *)
(***************************************************************************)
NumUsers == 3
NumStations == 4
MaxDevices == 2
NumEvents == 3
MaxTime == 2
MaxOffset == 1
MaxLimit == 2

(***************************************************************************)
(* The Users table.  User 1 holds global-write, user 2 holds global-read,  *)
(* every other user holds no global flag.                                  *)
(***************************************************************************)
UserIds == 1..NumUsers

\* The Groups table holds two groups, enough to tell a group from another.
GroupIds == {1, 2}
StationIds == 1..NumStations

hasGlobalWrite(user) == user = 1

hasGlobalRead(user) == user = 2

\* The groupname of the Group row with the given id ("g1", "g2", ...).
GroupnameOf(g) == <<"g", g>>

\* The names a caller may ask about: every stored groupname and one unused.
Groupnames == {GroupnameOf(g) : g \in GroupIds} \cup {<<"g", 0>>}

VARIABLES
  groups,      \* the Groups table: set of [id, groupname]
  groupUsers,  \* the GroupUsers join table: set of [GroupId, UserId, admin]
  stations,    \* the Stations table: set of [id, GroupId, name, lat, lng, retiredAt]
  devices,     \* the Devices table: set of [id, devicename, password, GroupId, saltId]
  call,        \* the sequelize commands: for each its position or outcome
  reqs,        \* the calls of the Group model in flight: a record per request,
               \* with its arguments, its position (the await it has passed)
               \* and what it has read so far
  deviceUsers, \* the DeviceUsers join table: set of [DeviceId, UserId, admin]
  dreqs,       \* the POST /devices requests in flight: a record per request
  resp,        \* the response just sent by a device route that awaits once
  events,      \* the Events table: set of [id, dateTime, DeviceId]
  eventCall,   \* the Event.query call in flight: its arguments, its position
               \* and what it has read so far
  recordings,  \* the Recordings table: set of [id, DeviceId, recordingDateTime]
  schema       \* the database schema: its tables, their belongs-to links, and
               \* whether the create-stations migration is recorded as applied

vars == <<groups, groupUsers, stations, devices, call, reqs, deviceUsers, dreqs,
          resp, events, eventCall, recordings, schema>>

\* What a step of a call of the Group model leaves alone, besides the
\* GroupUsers table, the Stations table and the requests in flight.
groupOthers == <<groups, devices, call, deviceUsers, dreqs, resp, events,
                 eventCall, recordings, schema>>

\* What a step of Event.query leaves alone, besides the call in flight.
eventOthers == <<groups, groupUsers, stations, devices, call, reqs,
                 deviceUsers, dreqs, resp, events, recordings, schema>>

\* What a step of a device route leaves alone, besides the Devices table,
\* the DeviceUsers table, the requests in flight and the response just sent.
deviceOthers == <<groups, groupUsers, stations, call, reqs, events, eventCall,
                  recordings, schema>>

(***************************************************************************)
(* GroupUsers                                                              *)
(***************************************************************************)
\* models.GroupUsers.findAll({where: {GroupId, UserId}})
GroupUsersFindAll(table, g, u) ==
  {r \in table : r.GroupId = g /\ r.UserId = u}

\* models.GroupUsers.findOne({where: {GroupId, UserId}}): no row or one row.
GroupUsersFindOne(table, g, u) ==
  IF GroupUsersFindAll(table, g, u) = {} THEN {}
  ELSE {CHOOSE r \in GroupUsersFindAll(table, g, u) : TRUE}

\* models.GroupUsers.isAdmin(groupId, userId): the user's association row
\* with the group has admin set; no row means FALSE.
GroupUsersIsAdmin(table, g, u) ==
  \E r \in GroupUsersFindAll(table, g, u) : r.admin

\* groupUser.admin = admin; await groupUser.save(), for the rows found by
\* the read before it.  The assignment marks admin as changed only when the
\* value differs from the one read, and save() sends no statement when no
\* attribute is changed.  Otherwise save() sends an UPDATE of admin by the
\* key of the row found, which writes the row that has the key now, and
\* none when the row is gone.
GroupUserSave(table, found, admin) ==
  {IF \E f \in found : /\ f.GroupId = r.GroupId /\ f.UserId = r.UserId
                       /\ f.admin # admin
   THEN [r EXCEPT !.admin = admin] ELSE r : r \in table}

\* A variant of the INSERT that stores admin false whatever the argument.
GroupUsersInsertNonAdmin(table, g, u, admin) ==
  table \cup {[GroupId |-> g, UserId |-> u, admin |-> FALSE]}

\* The INSERT group.addUser makes for a user it found no association of.
GroupUsersInsert(table, g, u, admin) ==
  table \cup {[GroupId |-> g, UserId |-> u, admin |-> admin]}

\* The UPDATE group.addUser makes for a user whose association it found
\* with other through-attributes: the rows of (group, user) get admin.
GroupUsersUpdate(table, g, u, admin) ==
  {IF r.GroupId = g /\ r.UserId = u THEN [r EXCEPT !.admin = admin] ELSE r :
   r \in table}

\* group.addUser(userToAdd, {through: {admin: admin}}) when nothing runs
\* between its SELECT and its write: the association is created when it is
\* missing, and its through-attributes are updated when it is there.
GroupAddUser(table, g, u, admin) ==
  IF GroupUsersFindAll(table, g, u) = {}
  THEN GroupUsersInsert(table, g, u, admin)
  ELSE GroupUsersUpdate(table, g, u, admin)

(***************************************************************************)
(* Group.prototype.userPermissions                                         *)
(***************************************************************************)
newUserPermissions(enabled) ==
  [canAddUsers |-> enabled, canRemoveUsers |-> enabled, canAddStations |-> enabled]

\* A variant that forgets the global-write flag.
userPermissionsNoGlobal(table, g, user) ==
  newUserPermissions(GroupUsersIsAdmin(table, g, user))

userPermissions(table, g, user) ==
  IF hasGlobalWrite(user) THEN newUserPermissions(TRUE)
  ELSE newUserPermissions(GroupUsersIsAdmin(table, g, user))

\* The devices a user may see: all of them with global read, else those of
\* the groups the user is a member of and those the user is directly
\* associated with.
VisibleDevices(devs, gu, du, user) ==
  IF hasGlobalRead(user) THEN devs
  ELSE {d \in devs :
          \/ \E r \in gu : r.GroupId = d.GroupId /\ r.UserId = user
          \/ \E r \in du : r.DeviceId = d.id /\ r.UserId = user}

(***************************************************************************)
(* The tables at start.  No code of the Group model creates a Group or a   *)
(* Station, so the rows that exist are there at start: every Group, and    *)
(* every Station, stations 1 and 2 active (retiredAt null) and the others  *)
(* retired.                                                                *)
(***************************************************************************)
GroupRows == {[id |-> g, groupname |-> GroupnameOf(g)] : g \in GroupIds}

\* Station s belongs to group 1 + (s mod 2).
\* A name is a pair; <<"hasOwnProperty", 0>> stands for the string
\* "hasOwnProperty", the name of a method every JavaScript object inherits.
\* Station.name is a STRING the database takes as it comes, so a station
\* may be named so: the first station, of group 2, is.
HasOwnPropertyName == <<"hasOwnProperty", 0>>

StationName(s) == IF s = 1 THEN HasOwnPropertyName ELSE <<"s", s>>

StationRow(s) ==
  [id |-> s, GroupId |-> 1 + (s % 2), name |-> StationName(s),
   lat |-> s, lng |-> s, retiredAt |-> IF s > 2 THEN <<1>> ELSE <<>>]

StationRows == {StationRow(s) : s \in StationIds}

\* The GroupUsers table at start: user 3 is an admin of group 2.  The rows
\* of group 1 are written by the calls.
GroupUsersRows == {[GroupId |-> 2, UserId |-> 3, admin |-> TRUE]}

DeviceFixture ==
  {[id |-> 1, devicename |-> "d1", password |-> "p1", GroupId |-> 1, saltId |-> <<1>>]}

\* The Recordings table: two recordings of device 1.
RecordingRows ==
  {[id |-> r, DeviceId |-> 1, recordingDateTime |-> r] : r \in {1, 2}}

\* The tables of the database, and the schema once every migration has
\* run: each table, and the belongs-to links (child table, parent table).
TableNames ==
  {"Users", "Groups", "Devices", "GroupUsers", "DeviceUsers", "Stations"}

BelongsToLinks ==
  {<<"Devices", "Groups">>, <<"GroupUsers", "Groups">>,
   <<"GroupUsers", "Users">>, <<"DeviceUsers", "Devices">>,
   <<"DeviceUsers", "Users">>, <<"Stations", "Groups">>}

MigratedSchema ==
  [tables |-> TableNames, links |-> BelongsToLinks, applied |-> TRUE]

\* Two calls of the Group model run at a time.
Procs == {1, 2}

IdleReq ==
  [op |-> "none", args |-> <<>>, pc |-> "idle", found |-> {}, value |-> <<>>]

\* Two POST /devices requests run at a time.
DeviceReqs == {1, 2}

IdleDeviceReq ==
  [op |-> "none", pc |-> "idle", devicename |-> "", password |-> "",
   group |-> 0, id |-> 0, written |-> {}, response |-> <<>>]

NoResponse == [op |-> "none", args |-> <<>>, response |-> <<>>]

NoCall == [op |-> "none", args |-> <<>>, status |-> "none", value |-> <<>>]

\* Two sequelize commands may run at a time.
MigrationCommands == {1, 2}

\* No sequelize command is running.
NoCalls == [c \in MigrationCommands |-> NoCall]

IdleEventCall ==
  [op |-> "none", args |-> <<>>, pc |-> "idle",
   visible |-> [all |-> FALSE, ids |-> {}],
   counted |-> FALSE, selected |-> FALSE,
   value |-> [rows |-> <<>>, count |-> 0]]

Init ==
  /\ groups = GroupRows
  /\ groupUsers = GroupUsersRows
  /\ stations = StationRows
  /\ devices = DeviceFixture
  /\ call = NoCalls
  /\ reqs = [p \in Procs |-> IdleReq]
  /\ deviceUsers = {}
  /\ dreqs = [p \in DeviceReqs |-> IdleDeviceReq]
  /\ resp = NoResponse
  /\ events = {}
  /\ eventCall = IdleEventCall
  /\ recordings = RecordingRows
  /\ schema = MigratedSchema

(***************************************************************************)
(* The calls of the Group model.  A handler suspends at each await and     *)
(* resumes when the database has answered, so each await is a step of its  *)
(* own: steps of other requests run between two steps of a call.  A step   *)
(* runs the handler from one await to the end of the next.                 *)
(***************************************************************************)
\* The calls that are followed step by step all address one group; rows of
\* the other group are in the tables from the start.
ConcGroups == {1}

(***************************************************************************)
(* Group.addUserToGroup(authUser, group, userToAdd, admin)                 *)
(***************************************************************************)
\* A variant that does not look at the caller's permissions.
StartAddUserToGroupUnchecked(p, authUser, g, userToAdd, admin) ==
  /\ reqs[p].pc = "idle"
  /\ reqs' = [reqs EXCEPT ![p] =
       [op |-> "addUserToGroup",
        args |-> [authUser |-> authUser, group |-> g, user |-> userToAdd,
                  admin |-> admin],
        pc |-> "permitted", found |-> {}, value |-> <<>>]]
  /\ UNCHANGED <<groupUsers, stations, groupOthers>>

\* The call arrives and runs to the end of its first await:
\* await group.userPermissions(authUser), and the throw when it denies.
StartAddUserToGroup(p, authUser, g, userToAdd, admin) ==
  /\ reqs[p].pc = "idle"
  /\ reqs' = [reqs EXCEPT ![p] =
       [op |-> "addUserToGroup",
        args |-> [authUser |-> authUser, group |-> g, user |-> userToAdd,
                  admin |-> admin],
        pc |-> IF ~userPermissions(groupUsers, g, authUser).canAddUsers
               THEN "AuthorizationError" ELSE "permitted",
        found |-> {}, value |-> <<>>]]
  /\ UNCHANGED <<groupUsers, stations, groupOthers>>

(***************************************************************************)
(* Group.removeUserFromGroup(authUser, group, userToRemove)                *)
(***************************************************************************)
StartRemoveUserFromGroup(p, authUser, g, userToRemove) ==
  /\ reqs[p].pc = "idle"
  /\ reqs' = [reqs EXCEPT ![p] =
       [op |-> "removeUserFromGroup",
        args |-> [authUser |-> authUser, group |-> g, user |-> userToRemove],
        pc |-> IF ~userPermissions(groupUsers, g, authUser).canRemoveUsers
               THEN "AuthorizationError" ELSE "permitted",
        found |-> {}, value |-> <<>>]]
  /\ UNCHANGED <<groupUsers, stations, groupOthers>>

\* await models.GroupUsers.findOne(...) of addUserToGroup: with no row
\* found the handler goes on to addUser.
\* await models.GroupUsers.findAll(...) of removeUserFromGroup: with no row
\* found the loop has nothing to destroy and the call returns.
FindAssociation(p) ==
  /\ reqs[p].pc = "permitted"
  /\ reqs[p].op \in {"addUserToGroup", "removeUserFromGroup"}
  /\ reqs' = [reqs EXCEPT
       ![p].pc =
         IF GroupUsersFindAll(groupUsers, reqs[p].args.group,
                              reqs[p].args.user) # {}
         THEN "found"
         ELSE IF reqs[p].op = "addUserToGroup" THEN "saved" ELSE "ok",
       ![p].found =
         IF reqs[p].op = "addUserToGroup"
         THEN GroupUsersFindOne(groupUsers, reqs[p].args.group, reqs[p].args.user)
         ELSE GroupUsersFindAll(groupUsers, reqs[p].args.group, reqs[p].args.user)]
  /\ UNCHANGED <<groupUsers, stations, groupOthers>>

\* if (groupUser != null) { groupUser.admin = admin; await groupUser.save() }
\* on the row findOne returned: nothing is written when that row had the
\* admin asked for, whatever the table holds by now; otherwise the row of
\* its key is updated, when it is still there.
SaveAssociation(p) ==
  /\ reqs[p].pc = "found"
  /\ reqs[p].op = "addUserToGroup"
  /\ groupUsers' = GroupUserSave(groupUsers, reqs[p].found, reqs[p].args.admin)
  /\ reqs' = [reqs EXCEPT ![p].pc = "saved", ![p].found = {}]
  /\ UNCHANGED <<stations, groupOthers>>

\* await group.addUser(userToAdd, {through: {admin: admin}}), first round
\* trip: addUser reads the associations of the group with the user.  When
\* it finds one whose through-attributes are those asked for it has nothing
\* to write, and the call returns.
AddUserSelect(p) ==
  /\ reqs[p].pc = "saved"
  /\ reqs' = [reqs EXCEPT
       ![p].pc =
         IF /\ GroupUsersFindAll(groupUsers, reqs[p].args.group,
                                 reqs[p].args.user) # {}
            /\ \A r \in GroupUsersFindAll(groupUsers, reqs[p].args.group,
                                          reqs[p].args.user) :
                 r.admin = reqs[p].args.admin
         THEN "ok" ELSE "selected",
       ![p].found = GroupUsersFindAll(groupUsers, reqs[p].args.group,
                                      reqs[p].args.user)]
  /\ UNCHANGED <<groupUsers, stations, groupOthers>>

\* addUser, second round trip: an INSERT for a user it found no association
\* of, which the key of GroupUsers (GroupId, UserId) rejects when a row is
\* there by now, so that the call throws; an UPDATE for a user whose
\* association it found with another admin flag.
AddUserWrite(p) ==
  /\ reqs[p].pc = "selected"
  /\ IF reqs[p].found = {}
     THEN IF GroupUsersFindAll(groupUsers, reqs[p].args.group,
                               reqs[p].args.user) # {}
          THEN /\ reqs' = [reqs EXCEPT
                            ![p].pc = "SequelizeUniqueConstraintError",
                            ![p].found = {}]
               /\ UNCHANGED groupUsers
          ELSE /\ groupUsers' =
                    GroupUsersInsert(groupUsers, reqs[p].args.group,
                                     reqs[p].args.user, reqs[p].args.admin)
               /\ reqs' = [reqs EXCEPT ![p].pc = "ok", ![p].found = {}]
     ELSE /\ groupUsers' =
               GroupUsersUpdate(groupUsers, reqs[p].args.group,
                                reqs[p].args.user, reqs[p].args.admin)
          /\ reqs' = [reqs EXCEPT ![p].pc = "ok", ![p].found = {}]
  /\ UNCHANGED <<stations, groupOthers>>

\* A variant of the loop that destroys nothing.
DestroyAssociationsKeepsRows(p) ==
  /\ reqs[p].pc = "found"
  /\ reqs[p].op = "removeUserFromGroup"
  /\ reqs' = [reqs EXCEPT ![p].pc = "ok", ![p].found = {}]
  /\ UNCHANGED <<groupUsers, stations, groupOthers>>

\* for (const groupUser of groupUsers) await groupUser.destroy(): a DELETE
\* by key of each row found.  GroupUsers holds one row for a group and a
\* user, so the loop runs once.
DestroyAssociations(p) ==
  /\ reqs[p].pc = "found"
  /\ reqs[p].op = "removeUserFromGroup"
  /\ groupUsers' =
       groupUsers \ {r \in groupUsers :
                       \E f \in reqs[p].found :
                         r.GroupId = f.GroupId /\ r.UserId = f.UserId}
  /\ reqs' = [reqs EXCEPT ![p].pc = "ok", ![p].found = {}]
  /\ UNCHANGED <<stations, groupOthers>>

(***************************************************************************)
(* Group.addStationsToGroup(authUser, group, stationsToAdd,                *)
(*                          applyToRecordingsFromDate)                     *)
(***************************************************************************)
\* group.getStations()
getStations(table, g) == {st \in table : st.GroupId = g}

\* The lists of incoming stations a caller passes: none, one whose name a
\* stored station has, and that one with one of a new name.
IncomingStationLists ==
  { <<>>,
    << [name |-> <<"s", 2>>, lat |-> 7, lng |-> 7] >>,
    << [name |-> <<"s", 2>>, lat |-> 7, lng |-> 7],
       [name |-> <<"s", 0>>, lat |-> 8, lng |-> 8] >> }

\* allStations and newStations, the two records keyed by name the handler
\* fills and never reads again.
addStationsLocals(table, g, stationsToAdd) ==
  [allStations |-> {st.name : st \in getStations(table, g)},
   newStations |-> {stationsToAdd[i].name : i \in 1..Len(stationsToAdd)}]

StartAddStationsToGroup(p, authUser, g, stationsToAdd, applyToRecordingsFromDate) ==
  /\ reqs[p].pc = "idle"
  /\ reqs' = [reqs EXCEPT ![p] =
       [op |-> "addStationsToGroup",
        args |-> [authUser |-> authUser, group |-> g,
                  stationsToAdd |-> stationsToAdd,
                  applyToRecordingsFromDate |-> applyToRecordingsFromDate],
        pc |-> IF ~userPermissions(groupUsers, g, authUser).canAddStations
               THEN "AuthorizationError" ELSE "permitted",
        found |-> {}, value |-> <<>>]]
  /\ UNCHANGED <<groupUsers, stations, groupOthers>>

\* A variant that does what the comments of the handler describe: the
\* stations of the group are removed and replaced by the incoming ones.
GetStationsReplacing(p) ==
  /\ reqs[p].pc = "permitted"
  /\ reqs[p].op = "addStationsToGroup"
  /\ stations' =
       (stations \ getStations(stations, reqs[p].args.group))
         \cup {[id |-> NumStations + i, GroupId |-> reqs[p].args.group,
                 name |-> reqs[p].args.stationsToAdd[i].name,
                 lat |-> reqs[p].args.stationsToAdd[i].lat,
                 lng |-> reqs[p].args.stationsToAdd[i].lng,
                 retiredAt |-> <<>>] :
               i \in 1..Len(reqs[p].args.stationsToAdd)}
  /\ reqs' = [reqs EXCEPT ![p].pc = "ok"]
  /\ UNCHANGED <<groupUsers, groupOthers>>

\* allStations.hasOwnProperty(station.name) in the second loop: allStations
\* is a plain object keyed by the names of the current stations, so a
\* current station named "hasOwnProperty" has replaced the method by a
\* Station, and the call of it throws a TypeError.  The loop runs the call
\* once per incoming station, so an empty list does not reach it.
hasOwnPropertyThrows(table, g, stationsToAdd) ==
  /\ Len(stationsToAdd) > 0
  /\ \E st \in getStations(table, g) : st.name = HasOwnPropertyName

\* const currentStations = await group.getStations(), and the loops that
\* fill allStations and newStations; the handler ends there, or throws in
\* the second loop.
GetStations(p) ==
  /\ reqs[p].pc = "permitted"
  /\ reqs[p].op = "addStationsToGroup"
  /\ reqs' = [reqs EXCEPT
       ![p].pc = IF hasOwnPropertyThrows(stations, reqs[p].args.group,
                                         reqs[p].args.stationsToAdd)
                 THEN "TypeError" ELSE "ok",
       ![p].found =
         {addStationsLocals(stations, reqs[p].args.group,
            IF hasOwnPropertyThrows(stations, reqs[p].args.group,
                                    reqs[p].args.stationsToAdd)
            THEN SubSeq(reqs[p].args.stationsToAdd, 1, 1)
            ELSE reqs[p].args.stationsToAdd)}]
  /\ UNCHANGED <<groupUsers, stations, groupOthers>>

(***************************************************************************)
(* Group.removeAllStationsFromGroup(authUser, group)                       *)
(***************************************************************************)
StartRemoveAllStationsFromGroup(p, authUser, g) ==
  /\ reqs[p].pc = "idle"
  /\ reqs' = [reqs EXCEPT ![p] =
       [op |-> "removeAllStationsFromGroup",
        args |-> [authUser |-> authUser, group |-> g],
        pc |-> IF ~userPermissions(groupUsers, g, authUser).canAddStations
               THEN "AuthorizationError" ELSE "permitted",
        found |-> {}, value |-> <<>>]]
  /\ UNCHANGED <<groupUsers, stations, groupOthers>>

\* A variant whose findAll has no where condition.
StationFindAllEvery(table, g) == table

\* models.Station.findAll({where: {GroupId: group.id}})
StationFindAll(table, g) == {st \in table : st.GroupId = g}

\* await models.Station.findAll(...): with no row found the loop has
\* nothing to destroy and the call returns.
FindStations(p) ==
  /\ reqs[p].pc = "permitted"
  /\ reqs[p].op = "removeAllStationsFromGroup"
  /\ reqs' = [reqs EXCEPT
       ![p].pc = IF StationFindAll(stations, reqs[p].args.group) = {}
                 THEN "ok" ELSE "found",
       ![p].found = StationFindAll(stations, reqs[p].args.group)]
  /\ UNCHANGED <<groupUsers, stations, groupOthers>>

\* A variant that retires the row in place of destroying it: the row gets
\* the time of the call as its retiredAt.
StationRetire(table, st) ==
  {IF x.id = st.id THEN [x EXCEPT !.retiredAt = <<2>>] ELSE x : x \in table}

\* groupStation.destroy(): a DELETE by key; the Station model is not
\* paranoid, so the row is gone.
StationDestroy(table, st) == {x \in table : x.id # st.id}

\* for (const groupStation of groupStations) await groupStation.destroy():
\* one await for each row found, in the order the findAll returned them,
\* which the query does not fix.
DestroyStation(p) ==
  /\ reqs[p].pc = "found"
  /\ reqs[p].op = "removeAllStationsFromGroup"
  /\ \E st \in reqs[p].found :
       /\ stations' = StationDestroy(stations, st)
       /\ reqs' = [reqs EXCEPT
            ![p].pc = IF reqs[p].found = {st} THEN "ok" ELSE "found",
            ![p].found = reqs[p].found \ {st}]
  /\ UNCHANGED <<groupUsers, groupOthers>>

(***************************************************************************)
(* Group.query(where, user)                                                *)
(***************************************************************************)
\* The where conditions a caller passes: an object with none, one or both
\* of the keys id and groupname; a key that is there must match.
Wheres ==
  [id : {{}} \cup {{g} : g \in GroupIds},
   groupname : {{}} \cup {{n} : n \in Groupnames}]

\* The where condition with no key.
NoWhere == [id |-> {}, groupname |-> {}]

WhereMatches(where, group) ==
  /\ \A v \in where.id : group.id = v
  /\ \A v \in where.groupname : group.groupname = v

\* userWhere: {id: user.id}, or null for a user with global read.
userWhere(user) == IF hasGlobalRead(user) THEN {} ELSE {user}

\* The Users included with a group: the users associated with it through
\* GroupUsers that match userWhere.
IncludedUsers(table, g, uw) ==
  {r.UserId : r \in {x \in table : x.GroupId = g /\ (uw = {} \/ x.UserId \in uw)}}

\* models.Group.findAll({where, include: [{model: User, where: userWhere},
\* {model: Device}]}): an include with a where is required (an inner join),
\* one without is not.
\* (A variant whose User include is not required: a left join.)
GroupFindAllUnjoined(grps, table, devs, where, uw) ==
  {[id |-> g.id, groupname |-> g.groupname,
    Users |-> IncludedUsers(table, g.id, uw),
    Devices |-> {d.id : d \in {x \in devs : x.GroupId = g.id}}] :
   g \in {x \in grps : WhereMatches(where, x)}}

GroupFindAll(grps, table, devs, where, uw) ==
  {[id |-> g.id, groupname |-> g.groupname,
    Users |-> IncludedUsers(table, g.id, uw),
    Devices |-> {d.id : d \in {x \in devs : x.GroupId = g.id}}] :
   g \in {x \in grps : /\ WhereMatches(where, x)
                        /\ (uw # {} => IncludedUsers(table, x.id, uw) # {})}}

\* The value of the call while augmentGroupData runs: for each group found,
\* whether its User.findAll has answered (listed), and for each user it
\* listed whether GroupUsers.isAdmin has answered (read).  The promise
\* resolves when every group is listed and every user read.
QueryResolved(value) ==
  \A row \in value : row.listed /\ \A gu \in row.GroupUsers : gu.read

\* Group.query arrives and runs to the end of models.Group.findAll(...);
\* groups.map then starts a User.findAll for each group found.  With no
\* group found Promise.all resolves at once.
StartGroupQuery(p, where, user) ==
  /\ reqs[p].pc = "idle"
  /\ reqs' = [reqs EXCEPT ![p] =
       [op |-> "query", args |-> [where |-> where, user |-> user],
        pc |-> IF GroupFindAll(groups, groupUsers, devices, where,
                               userWhere(user)) = {}
               THEN "ok" ELSE "found",
        found |-> {},
        value |-> {[id |-> g.id, groupname |-> g.groupname, Users |-> g.Users,
                    Devices |-> g.Devices, listed |-> FALSE, GroupUsers |-> {}] :
                   g \in GroupFindAll(groups, groupUsers, devices, where,
                                      userWhere(user))}]]
  /\ UNCHANGED <<groupUsers, stations, groupOthers>>

\* A variant that lists the users of the primary query's include, which
\* userWhere narrows to the caller.
ListGroupUsersIncludedOnly(p, g) ==
  /\ reqs[p].pc = "found"
  /\ reqs[p].op = "query"
  /\ \E row \in reqs[p].value :
       /\ row.id = g
       /\ ~row.listed
       /\ reqs' = [reqs EXCEPT
            ![p].value =
              (reqs[p].value \ {row})
                \cup {[row EXCEPT
                         !.listed = TRUE,
                         !.GroupUsers =
                           {[id |-> u, read |-> TRUE,
                             isAdmin |-> GroupUsersIsAdmin(groupUsers, g, u)] :
                            u \in row.Users}]},
            ![p].pc =
              IF QueryResolved(reqs[p].value \ {row}) THEN "ok" ELSE "found"]
  /\ UNCHANGED <<groupUsers, stations, groupOthers>>

\* models.User.findAll({include: [{model: Group, where: {id: group.id}}]})
\* of group g, one of the groups found, answers: the users associated with
\* the group.  groupUsers.map then starts a GroupUsers.isAdmin for each of
\* them; with no user listed the group is done.
ListGroupUsers(p, g) ==
  /\ reqs[p].pc = "found"
  /\ reqs[p].op = "query"
  /\ \E row \in reqs[p].value :
       /\ row.id = g
       /\ ~row.listed
       /\ reqs' = [reqs EXCEPT
            ![p].value =
              (reqs[p].value \ {row})
                \cup {[row EXCEPT
                         !.listed = TRUE,
                         !.GroupUsers =
                           {[id |-> u, read |-> FALSE, isAdmin |-> FALSE] :
                            u \in IncludedUsers(groupUsers, g, {})}]},
            ![p].pc =
              IF /\ IncludedUsers(groupUsers, g, {}) = {}
                 /\ QueryResolved(reqs[p].value \ {row})
              THEN "ok" ELSE "found"]
  /\ UNCHANGED <<groupUsers, stations, groupOthers>>

\* models.GroupUsers.isAdmin(group.id, groupUser.id) of user u, one of the
\* users listed for group g, answers, and
\* groupUser.setDataValue("isAdmin", value).
ReadIsAdmin(p, g, u) ==
  /\ reqs[p].pc = "found"
  /\ reqs[p].op = "query"
  /\ \E row \in reqs[p].value :
       /\ row.id = g
       /\ row.listed
       /\ \E gu \in row.GroupUsers :
            /\ gu.id = u
            /\ ~gu.read
            /\ reqs' = [reqs EXCEPT
                 ![p].value =
                   (reqs[p].value \ {row})
                     \cup {[row EXCEPT
                              !.GroupUsers =
                                (row.GroupUsers \ {gu})
                                  \cup {[id |-> u, read |-> TRUE,
                                         isAdmin |->
                                           GroupUsersIsAdmin(groupUsers, g, u)]}]},
                 ![p].pc =
                   IF /\ QueryResolved(reqs[p].value \ {row})
                      /\ \A other \in row.GroupUsers \ {gu} : other.read
                   THEN "ok" ELSE "found"]
  /\ UNCHANGED <<groupUsers, stations, groupOthers>>

(***************************************************************************)
(* group.userPermissions(user), called on its own: one await.              *)
(***************************************************************************)
GroupUserPermissions(p, g, user) ==
  /\ reqs[p].pc = "idle"
  /\ reqs' = [reqs EXCEPT ![p] =
       [op |-> "userPermissions", args |-> [group |-> g, user |-> user],
        pc |-> "ok", found |-> {},
        value |-> userPermissions(groupUsers, g, user)]]
  /\ UNCHANGED <<groupUsers, stations, groupOthers>>

(***************************************************************************)
(* Group.freeGroupname(name): one await.                                   *)
(***************************************************************************)
\* this.findOne({where: {groupname: name}})
GroupFindOneByName(grps, name) ==
  IF {g \in grps : g.groupname = name} = {} THEN {}
  ELSE {CHOOSE g \in grps : g.groupname = name}

\* A variant that never throws.
freeGroupnameAlwaysFree(grps, name) == [status |-> "ok", value |-> TRUE]

\* The outcome: the thrown Error("groupname in use"), or true.
freeGroupnameOutcome(grps, name) ==
  IF GroupFindOneByName(grps, name) # {}
  THEN [status |-> "Error", value |-> "groupname in use"]
  ELSE [status |-> "ok", value |-> TRUE]

freeGroupname(p, name) ==
  /\ reqs[p].pc = "idle"
  /\ reqs' = [reqs EXCEPT ![p] =
       [op |-> "freeGroupname", args |-> [name |-> name],
        pc |-> freeGroupnameOutcome(groups, name).status, found |-> {},
        value |-> freeGroupnameOutcome(groups, name).value]]
  /\ UNCHANGED <<groupUsers, stations, groupOthers>>

(***************************************************************************)
(* Group.getIdFromName(name): one await.                                   *)
(*                                                                         *)
(* What the promise resolves to is a record: type "null", type "number"    *)
(* with the number in n, or type "undefined", what an async function       *)
(* resolves to when it ends without a return statement.                    *)
(***************************************************************************)
\* if (group == null) { return null; } else { group.getDataValue("id"); }
\* The else branch reads the id and drops it; the function ends there.
getIdFromNameOutcome(grps, name) ==
  IF GroupFindOneByName(grps, name) = {}
  THEN [type |-> "null", n |-> 0]
  ELSE [type |-> "undefined", n |-> 0]

getIdFromName(p, name) ==
  /\ reqs[p].pc = "idle"
  /\ reqs' = [reqs EXCEPT ![p] =
       [op |-> "getIdFromName", args |-> [name |-> name],
        pc |-> "ok", found |-> {},
        value |-> getIdFromNameOutcome(groups, name)]]
  /\ UNCHANGED <<groupUsers, stations, groupOthers>>

(***************************************************************************)
(* The call has returned or thrown; the caller takes the outcome and the   *)
(* next request may arrive.                                                *)
(***************************************************************************)
Finish(p) ==
  /\ reqs[p].pc \in {"ok", "AuthorizationError", "Error", "TypeError",
                     "SequelizeUniqueConstraintError"}
  /\ reqs' = [reqs EXCEPT ![p] = IdleReq]
  /\ UNCHANGED <<groupUsers, stations, groupOthers>>

(***************************************************************************)
(* The writes of the requests that are not followed step by step.  While a *)
(* call is between two awaits, any number of other requests run; what they *)
(* do to the call is what they write.  A holder of global write passes the *)
(* permission check of addUserToGroup and of removeUserFromGroup on every  *)
(* group, so each of their writes can come at any time.                    *)
(***************************************************************************)
\* The write of an addUserToGroup(holder of global write, g, u, admin) of
\* another request: groupUser.save() or group.addUser(...).
ConcurrentAddUser(g, u, admin) ==
  /\ GroupAddUser(groupUsers, g, u, admin) # groupUsers
  /\ groupUsers' = GroupAddUser(groupUsers, g, u, admin)
  /\ UNCHANGED <<stations, reqs, groupOthers>>

\* The write of a removeUserFromGroup(holder of global write, g, u) of
\* another request: groupUser.destroy().
ConcurrentRemoveUser(g, u) ==
  /\ GroupUsersFindAll(groupUsers, g, u) # {}
  /\ groupUsers' = groupUsers \ GroupUsersFindAll(groupUsers, g, u)
  /\ UNCHANGED <<stations, reqs, groupOthers>>

(***************************************************************************)
(* Spec: a call of addUserToGroup, removeUserFromGroup, addStationsToGroup,*)
(* removeAllStationsFromGroup, userPermissions, freeGroupname,             *)
(* getIdFromName or query (with no where condition) is followed from its   *)
(* arrival to its return, one call after another, with the writes of other *)
(* requests between its steps.                                             *)
(***************************************************************************)
Next ==
  \/ \E authUser \in UserIds, g \in ConcGroups, u \in UserIds, admin \in BOOLEAN :
       StartAddUserToGroup(1, authUser, g, u, admin)
  \/ \E authUser \in UserIds, g \in ConcGroups, u \in UserIds :
       StartRemoveUserFromGroup(1, authUser, g, u)
  \/ FindAssociation(1)
  \/ SaveAssociation(1)
  \/ AddUserSelect(1)
  \/ AddUserWrite(1)
  \/ DestroyAssociations(1)
  \/ \E authUser \in UserIds, g \in GroupIds, sts \in IncomingStationLists,
        date \in {<<>>, <<1>>} :
       StartAddStationsToGroup(1, authUser, g, sts, date)
  \/ GetStations(1)
  \/ \E authUser \in UserIds, g \in ConcGroups :
       StartRemoveAllStationsFromGroup(1, authUser, g)
  \/ FindStations(1)
  \/ DestroyStation(1)
  \/ \E g \in GroupIds, user \in UserIds : GroupUserPermissions(1, g, user)
  \/ \E name \in Groupnames : freeGroupname(1, name)
  \/ \E name \in Groupnames : getIdFromName(1, name)
  \/ \E user \in UserIds : StartGroupQuery(1, NoWhere, user)
  \/ \E g \in GroupIds : ListGroupUsers(1, g)
  \/ \E g \in GroupIds, u \in UserIds : ReadIsAdmin(1, g, u)
  \/ Finish(1)
  \/ \E g \in ConcGroups, u \in UserIds, admin \in BOOLEAN :
       ConcurrentAddUser(g, u, admin)
  \/ \E g \in ConcGroups, u \in UserIds : ConcurrentRemoveUser(g, u)

Spec == Init /\ [][Next]_vars

(***************************************************************************)
(* SpecConc: two calls of addUserToGroup and removeUserFromGroup run at a  *)
(* time, each followed step by step.                                       *)
(***************************************************************************)
NextConc ==
  \E p \in Procs :
    \/ \E authUser \in UserIds, g \in ConcGroups, u \in UserIds, admin \in BOOLEAN :
         StartAddUserToGroup(p, authUser, g, u, admin)
    \/ \E authUser \in UserIds, g \in ConcGroups, u \in UserIds :
         StartRemoveUserFromGroup(p, authUser, g, u)
    \/ FindAssociation(p)
    \/ SaveAssociation(p)
    \/ AddUserSelect(p)
    \/ AddUserWrite(p)
    \/ DestroyAssociations(p)
    \/ Finish(p)

SpecConc == Init /\ [][NextConc]_vars

(***************************************************************************)
(* SpecStations: two calls of addStationsToGroup and                       *)
(* removeAllStationsFromGroup run at a time, each followed step by step,   *)
(* with the writes of other requests to GroupUsers between their steps.    *)
(***************************************************************************)
NextStations ==
  \/ \E p \in Procs :
       \/ \E authUser \in UserIds, g \in GroupIds, sts \in IncomingStationLists,
             date \in {<<>>, <<1>>} :
            StartAddStationsToGroup(p, authUser, g, sts, date)
       \/ GetStations(p)
       \/ \E authUser \in UserIds, g \in ConcGroups :
            StartRemoveAllStationsFromGroup(p, authUser, g)
       \/ FindStations(p)
       \/ DestroyStation(p)
       \/ Finish(p)
  \/ \E g \in ConcGroups, u \in UserIds, admin \in BOOLEAN :
       ConcurrentAddUser(g, u, admin)
  \/ \E g \in ConcGroups, u \in UserIds : ConcurrentRemoveUser(g, u)

SpecStations == Init /\ [][NextStations]_vars

(***************************************************************************)
(* SpecQuery: a call of Group.query is followed from its arrival to its    *)
(* return, one call after another, with the writes of other requests to    *)
(* GroupUsers between its steps.                                           *)
(***************************************************************************)
NextQuery ==
  \/ \E where \in Wheres, user \in UserIds : StartGroupQuery(1, where, user)
  \/ \E g \in GroupIds : ListGroupUsers(1, g)
  \/ \E g \in GroupIds, u \in UserIds : ReadIsAdmin(1, g, u)
  \/ Finish(1)
  \/ \E g \in ConcGroups, u \in UserIds, admin \in BOOLEAN :
       ConcurrentAddUser(g, u, admin)
  \/ \E g \in ConcGroups, u \in UserIds : ConcurrentRemoveUser(g, u)

SpecQuery == Init /\ [][NextQuery]_vars

(***************************************************************************)
(* Properties of the calls of the Group model.  A call is not one step, so *)
(* what a call reads is stated for the tables as they are at the step that *)
(* reads them, and what it writes for the step that writes.                *)
(***************************************************************************)
\* The user has an association row with the group.
IsMember(table, g, u) == \E r \in table : r.GroupId = g /\ r.UserId = u

\* The user's association row with the group has admin = true.
IsGroupAdmin(table, g, u) ==
  \E r \in table : r.GroupId = g /\ r.UserId = u /\ r.admin

\* C2: for a user without global read, whatever the where condition and
\* whatever the GroupUsers table, every group the primary query of
\* Group.query finds has a GroupUsers row for that user in the table the
\* query reads, is a stored group and matches the where condition; the
\* later steps of the call return those groups and no other.
C2_QueryOnlyMemberGroups ==
  [][ /\ ( /\ reqs[1].pc = "idle"
           /\ reqs'[1].op = "query"
           /\ ~hasGlobalRead(reqs'[1].args.user) ) =>
           \A row \in reqs'[1].value :
             /\ IsMember(groupUsers, row.id, reqs'[1].args.user)
             /\ \E g \in groups :
                  /\ g.id = row.id
                  /\ g.groupname = row.groupname
                  /\ WhereMatches(reqs'[1].args.where, g)
      /\ (reqs[1].op = "query" /\ reqs'[1].op = "query") =>
           {row.id : row \in reqs'[1].value} = {row.id : row \in reqs[1].value}
    ]_vars

\* A user without global read who is a member of group 2 only has queried
\* with no where condition and got group 2 alone, while group 1 has members.
C2_Witness ==
  /\ reqs[1].op = "query"
  /\ reqs[1].pc = "ok"
  /\ ~hasGlobalRead(reqs[1].args.user)
  /\ reqs[1].args.where = NoWhere
  /\ {row.id : row \in reqs[1].value} = {2}
  /\ IsMember(groupUsers, 2, reqs[1].args.user)
  /\ ~IsMember(groupUsers, 1, reqs[1].args.user)
  /\ \E r \in groupUsers : r.GroupId = 1

\* C3: group.userPermissions(user) returns three fields that all equal
\* (user has global write, or the user's GroupUsers row for the group, in
\* the table the call reads, has admin = true).
C3_UserPermissions ==
  [][ \A p \in Procs :
        (reqs[p].pc = "idle" /\ reqs'[p].op = "userPermissions") =>
          reqs'[p].value =
            [canAddUsers |->
               hasGlobalWrite(reqs'[p].args.user)
                 \/ IsGroupAdmin(groupUsers, reqs'[p].args.group, reqs'[p].args.user),
             canRemoveUsers |->
               hasGlobalWrite(reqs'[p].args.user)
                 \/ IsGroupAdmin(groupUsers, reqs'[p].args.group, reqs'[p].args.user),
             canAddStations |->
               hasGlobalWrite(reqs'[p].args.user)
                 \/ IsGroupAdmin(groupUsers, reqs'[p].args.group, reqs'[p].args.user)]
    ]_vars

\* A user with global write and no association row with the group got all
\* three capabilities.
C3_Witness ==
  /\ reqs[1].op = "userPermissions"
  /\ hasGlobalWrite(reqs[1].args.user)
  /\ ~IsMember(groupUsers, reqs[1].args.group, reqs[1].args.user)
  /\ \E r \in groupUsers : r.GroupId = reqs[1].args.group
  /\ reqs[1].value.canAddUsers
  /\ reqs[1].value.canRemoveUsers
  /\ reqs[1].value.canAddStations

\* C4: addUserToGroup by an authUser who, when the call checks, has no
\* global write and no admin row on the group throws AuthorizationError;
\* the call writes nothing to GroupUsers, at the check or after it.
C4_UnauthorisedAddFails ==
  [][ \A p \in Procs :
        /\ ( /\ reqs[p].pc = "idle"
             /\ reqs'[p].op = "addUserToGroup"
             /\ ~hasGlobalWrite(reqs'[p].args.authUser)
             /\ ~IsGroupAdmin(groupUsers, reqs'[p].args.group,
                              reqs'[p].args.authUser) ) =>
             /\ reqs'[p].pc = "AuthorizationError"
             /\ groupUsers' = groupUsers
        /\ ( /\ reqs[p].pc = "AuthorizationError"
             /\ reqs'[p].pc # "AuthorizationError" ) =>
             /\ reqs'[p].pc = "idle"
             /\ groupUsers' = groupUsers
    ]_vars

\* A member of the group who is not an admin and has no global write asked
\* to add another user as admin, and got the AuthorizationError; the other
\* user has no row.
C4_Witness ==
  /\ reqs[1].op = "addUserToGroup"
  /\ reqs[1].pc = "AuthorizationError"
  /\ ~hasGlobalWrite(reqs[1].args.authUser)
  /\ IsMember(groupUsers, reqs[1].args.group, reqs[1].args.authUser)
  /\ ~IsGroupAdmin(groupUsers, reqs[1].args.group, reqs[1].args.authUser)
  /\ reqs[1].args.user # reqs[1].args.authUser
  /\ reqs[1].args.admin
  /\ ~IsMember(groupUsers, reqs[1].args.group, reqs[1].args.user)

\* C9: freeGroupname(name) throws Error("groupname in use") when a Group
\* has the name, returns true when none has, and leaves the Groups table
\* as it is.
C9_FreeGroupname ==
  [][ \A p \in Procs :
        (reqs[p].pc = "idle" /\ reqs'[p].op = "freeGroupname") =>
          /\ groups' = groups
          /\ (\E g \in groups : g.groupname = reqs'[p].args.name) =>
               /\ reqs'[p].pc = "Error"
               /\ reqs'[p].value = "groupname in use"
          /\ (~\E g \in groups : g.groupname = reqs'[p].args.name) =>
               /\ reqs'[p].pc = "ok"
               /\ reqs'[p].value = TRUE
    ]_vars

\* freeGroupname has thrown for the name of a stored group.
C9_Witness ==
  /\ reqs[1].op = "freeGroupname"
  /\ reqs[1].pc = "Error"
  /\ \E g \in groups : g.groupname = reqs[1].args.name

\* C10 as stated: no step removes a Station row.
C10_StationRowsNeverDeleted ==
  [][ stations \subseteq stations' ]_vars

\* C10, amended: the Stations table changes only at a destroy of a
\* removeAllStationsFromGroup that has passed its permission check; the
\* step deletes one row, a row of the call's group that its findAll
\* returned, retired or not, and changes no row that stays; when the call
\* returns no row of its group is left.  No step of addStationsToGroup,
\* addUserToGroup, removeUserFromGroup, userPermissions or query changes
\* the table.
C10_StationsRemovedOnlyByRemoveAll ==
  /\ [] \A p \in Procs :
       (reqs[p].op = "removeAllStationsFromGroup" /\ reqs[p].pc = "found") =>
         \A st \in reqs[p].found : st.GroupId = reqs[p].args.group
  /\ [][ /\ stations' # stations =>
              \E p \in Procs :
                /\ reqs[p].op = "removeAllStationsFromGroup"
                /\ reqs[p].pc = "found"
                /\ reqs'[p].pc \in {"found", "ok"}
                /\ \E st \in reqs[p].found :
                     /\ st.GroupId = reqs[p].args.group
                     /\ st \in stations
                     /\ stations' = stations \ {st}
         /\ \A p \in Procs :
              /\ ( /\ reqs[p].pc = "idle"
                   /\ reqs'[p].op = "removeAllStationsFromGroup"
                   /\ reqs'[p].pc = "permitted" ) =>
                   \/ hasGlobalWrite(reqs'[p].args.authUser)
                   \/ IsGroupAdmin(groupUsers, reqs'[p].args.group,
                                   reqs'[p].args.authUser)
              /\ ( /\ reqs[p].op = "removeAllStationsFromGroup"
                   /\ reqs[p].pc \in {"permitted", "found"}
                   /\ reqs'[p].pc = "ok" ) =>
                   getStations(stations', reqs[p].args.group) = {}
       ]_vars

\* removeAllStationsFromGroup by an admin of group 1 without global write
\* has returned: the active and the retired station of group 1 are gone and
\* the stations of group 2 are there.
C10_Witness ==
  /\ reqs[1].op = "removeAllStationsFromGroup"
  /\ reqs[1].pc = "ok"
  /\ reqs[1].args.group = 1
  /\ ~hasGlobalWrite(reqs[1].args.authUser)
  /\ stations = {st \in StationRows : st.GroupId = 2}
  /\ \E st \in StationRows : st.GroupId = 1 /\ st.retiredAt = <<>>
  /\ \E st \in StationRows : st.GroupId = 1 /\ st.retiredAt # <<>>

\* C11: no step of addStationsToGroup changes a table, whatever the
\* incoming stations and applyToRecordingsFromDate: Stations, Recordings,
\* GroupUsers and Groups are after each step what they were before it.  A
\* caller without canAddStations at the check gets the AuthorizationError,
\* a caller with it passes; the call then reads the group's stations and
\* returns, or throws a TypeError when one of them is named
\* "hasOwnProperty" and a station is incoming.
C11_AddStationsNoMutation ==
  [][ \A p \in Procs :
        /\ ( /\ reqs'[p].pc # reqs[p].pc
             /\ (reqs[p].op = "addStationsToGroup"
                   \/ reqs'[p].op = "addStationsToGroup") ) =>
             /\ stations' = stations
             /\ recordings' = recordings
             /\ groupUsers' = groupUsers
             /\ groups' = groups
        /\ (reqs[p].pc = "idle" /\ reqs'[p].op = "addStationsToGroup") =>
             reqs'[p].pc =
               IF \/ hasGlobalWrite(reqs'[p].args.authUser)
                  \/ IsGroupAdmin(groupUsers, reqs'[p].args.group,
                                  reqs'[p].args.authUser)
               THEN "permitted" ELSE "AuthorizationError"
        /\ ( /\ reqs[p].op = "addStationsToGroup"
             /\ reqs[p].pc = "permitted"
             /\ reqs'[p].pc # "permitted" ) =>
             reqs'[p].pc =
               IF /\ Len(reqs[p].args.stationsToAdd) > 0
                  /\ \E st \in stations :
                       /\ st.GroupId = reqs[p].args.group
                       /\ st.name = HasOwnPropertyName
               THEN "TypeError" ELSE "ok"
    ]_vars

\* addStationsToGroup by an admin of the group without global write, with
\* two incoming stations (one named as a stored station, one new) and a
\* date, has returned; every station is as it was at start.
C11_Witness ==
  \E p \in Procs :
    /\ reqs[p].op = "addStationsToGroup"
    /\ reqs[p].pc = "ok"
    /\ ~hasGlobalWrite(reqs[p].args.authUser)
    /\ Len(reqs[p].args.stationsToAdd) = 2
    /\ reqs[p].args.applyToRecordingsFromDate = <<1>>
    /\ \E l \in reqs[p].found :
         /\ reqs[p].args.stationsToAdd[1].name \in l.allStations
         /\ reqs[p].args.stationsToAdd[2].name \notin l.allStations
    /\ stations = StationRows
    /\ recordings = RecordingRows

\* C13: every group of the primary query gets a GroupUsers list: the step
\* that lists the users of a group lists every user that has an
\* association row with the group in the table it reads, whoever the
\* caller; the step that reads isAdmin for a listed user sets it to the
\* admin flag of that user's row in the table it reads; the call returns
\* when every group is listed and every listed user read; and no step of
\* the enrichment adds, removes or changes a group of the primary query.
C13_GroupUsersEnrichment ==
  /\ [] ((reqs[1].op = "query" /\ reqs[1].pc = "ok") => QueryResolved(reqs[1].value))
  /\ [][ (reqs[1].op = "query" /\ reqs'[1].op = "query") =>
           /\ {<<row.id, row.groupname, row.Users, row.Devices>> :
                 row \in reqs'[1].value}
                = {<<row.id, row.groupname, row.Users, row.Devices>> :
                     row \in reqs[1].value}
           /\ \A old \in reqs[1].value, new \in reqs'[1].value :
                old.id = new.id =>
                  /\ (old.listed => new.listed)
                  /\ (old.listed =>
                        {gu.id : gu \in new.GroupUsers}
                          = {gu.id : gu \in old.GroupUsers})
                  /\ (~old.listed /\ new.listed) =>
                        {gu.id : gu \in new.GroupUsers}
                          = {r.UserId : r \in {x \in groupUsers :
                                                 x.GroupId = old.id}}
                  /\ \A ogu \in old.GroupUsers, ngu \in new.GroupUsers :
                       ogu.id = ngu.id =>
                         /\ ogu.read => ngu = ogu
                         /\ (~ogu.read /\ ngu.read) =>
                              ngu.isAdmin =
                                IsGroupAdmin(groupUsers, old.id, ogu.id)
       ]_vars

\* A member of group 1 without global read has queried group 1 and got it
\* with both its members listed, one an admin and one not, as the table
\* has them.
C13_Witness ==
  /\ reqs[1].op = "query"
  /\ reqs[1].pc = "ok"
  /\ ~hasGlobalRead(reqs[1].args.user)
  /\ \E row \in reqs[1].value :
       /\ row.id = 1
       /\ row.Users = {reqs[1].args.user}
       /\ Cardinality(row.GroupUsers) = 2
       /\ \E a, b \in row.GroupUsers :
            /\ a.id = reqs[1].args.user
            /\ ~a.isAdmin
            /\ b.id # a.id
            /\ b.isAdmin
       /\ \A gu \in row.GroupUsers :
            \E r \in groupUsers :
              r.GroupId = 1 /\ r.UserId = gu.id /\ r.admin = gu.isAdmin

\* C14: a Station row whose retiredAt is set keeps that retiredAt in every
\* step that keeps the row.
C14_RetiredAtImmutable ==
  [][ \A old \in stations, new \in stations' :
        (old.id = new.id /\ old.retiredAt # <<>>) =>
          new.retiredAt = old.retiredAt ]_vars

\* A removeAllStationsFromGroup is between two destroys: the active
\* station of its group is gone and the retired one is there, retired as
\* it was.
C14_Witness ==
  \E p \in Procs :
    /\ reqs[p].op = "removeAllStationsFromGroup"
    /\ reqs[p].pc = "found"
    /\ \E st \in reqs[p].found :
         /\ st.retiredAt # <<>>
         /\ st \in stations
    /\ \E st \in StationRows :
         /\ st.GroupId = reqs[p].args.group
         /\ st.retiredAt = <<>>
         /\ st \notin stations

\* The calls that check a capability of the caller first.
GuardedOps ==
  {"addUserToGroup", "removeUserFromGroup", "addStationsToGroup",
   "removeAllStationsFromGroup"}

\* C16: permissions are read from the table at each call.  The step that
\* completes removeUserFromGroup(authUser, G, U) leaves no row of U in G.
\* A call of addUserToGroup, removeUserFromGroup, addStationsToGroup or
\* removeAllStationsFromGroup on G by a user without global write who, when
\* the call checks, has no row in G or a row with admin = false throws the
\* AuthorizationError and changes no table.  The check itself, and
\* userPermissions called on its own, change no table.
C16_PermissionChangeTakesEffect ==
  [][ \A p \in Procs :
        /\ ( /\ reqs[p].op = "removeUserFromGroup"
             /\ reqs[p].pc \in {"permitted", "found"}
             /\ reqs'[p].pc = "ok" ) =>
             ~IsMember(groupUsers', reqs[p].args.group, reqs[p].args.user)
        /\ ( /\ reqs[p].pc = "idle"
             /\ reqs'[p].op \in GuardedOps
             /\ ~hasGlobalWrite(reqs'[p].args.authUser)
             /\ ~IsGroupAdmin(groupUsers, reqs'[p].args.group,
                              reqs'[p].args.authUser) ) =>
             reqs'[p].pc = "AuthorizationError"
        /\ ( /\ reqs[p].pc = "AuthorizationError"
             /\ reqs'[p].pc # "AuthorizationError" ) =>
             /\ reqs'[p].pc = "idle"
             /\ groupUsers' = groupUsers
             /\ stations' = stations
        /\ (reqs[p].pc = "idle" /\ reqs'[p].pc # "idle") =>
             /\ groupUsers' = groupUsers
             /\ stations' = stations
             /\ groups' = groups
    ]_vars

\* A user without global write whose row in the group has admin = false
\* called removeAllStationsFromGroup and got the AuthorizationError; the
\* stations of the group are there.
C16_Witness ==
  /\ reqs[1].op = "removeAllStationsFromGroup"
  /\ reqs[1].pc = "AuthorizationError"
  /\ ~hasGlobalWrite(reqs[1].args.authUser)
  /\ IsMember(groupUsers, reqs[1].args.group, reqs[1].args.authUser)
  /\ ~IsGroupAdmin(groupUsers, reqs[1].args.group, reqs[1].args.authUser)
  /\ getStations(stations, reqs[1].args.group) # {}

\* C17: GroupUsers holds at most one row for a group and a user.  A step
\* of addUserToGroup changes no row of another user or another group, and
\* changes nothing when the row of (group, userToAdd) is there with the
\* admin asked for.  The step that completes the call leaves exactly the
\* row (group, userToAdd, admin) for the two: the read of addUser that
\* finds it so, or its write, when the rows of the two are at the write
\* what addUser read (no other request wrote them in between).  The same
\* holds of groupUser.save(): when the row is at the save what findOne
\* read, the row is afterwards (group, userToAdd, admin).
C17_AddUserIsUpsert ==
  /\ [] \A r, s \in groupUsers :
       (r.GroupId = s.GroupId /\ r.UserId = s.UserId) => r = s
  /\ [][ \A p \in Procs :
           ( /\ reqs[p].op = "addUserToGroup"
             /\ reqs'[p].pc # reqs[p].pc
             /\ reqs[p].pc # "AuthorizationError" ) =>
             LET g == reqs[p].args.group
                 u == reqs[p].args.user
                 target == [GroupId |-> reqs[p].args.group,
                            UserId |-> reqs[p].args.user,
                            admin |-> reqs[p].args.admin]
             IN /\ {r \in groupUsers' : ~(r.GroupId = g /\ r.UserId = u)}
                     = {r \in groupUsers : ~(r.GroupId = g /\ r.UserId = u)}
                /\ GroupUsersFindAll(groupUsers, g, u) = {target} =>
                     groupUsers' = groupUsers
                /\ ( /\ reqs[p].pc = "found"
                     /\ GroupUsersFindAll(groupUsers, g, u) = reqs[p].found ) =>
                     GroupUsersFindAll(groupUsers', g, u) = {target}
                /\ (reqs[p].pc = "saved" /\ reqs'[p].pc = "ok") =>
                     GroupUsersFindAll(groupUsers', g, u) = {target}
                /\ ( /\ reqs[p].pc = "selected"
                     /\ GroupUsersFindAll(groupUsers, g, u) = reqs[p].found ) =>
                     /\ reqs'[p].pc = "ok"
                     /\ GroupUsersFindAll(groupUsers', g, u) = {target}
       ]_vars

\* An admin of the group without global write has added a user who had no
\* row, as admin: the call has returned and the row is there, with the row
\* of the caller as it was.
C17_Witness ==
  /\ reqs[1].op = "addUserToGroup"
  /\ reqs[1].pc = "ok"
  /\ ~hasGlobalWrite(reqs[1].args.authUser)
  /\ reqs[1].args.user # reqs[1].args.authUser
  /\ reqs[1].args.admin
  /\ GroupUsersFindAll(groupUsers, reqs[1].args.group, reqs[1].args.user)
       = {[GroupId |-> reqs[1].args.group, UserId |-> reqs[1].args.user,
           admin |-> TRUE]}
  /\ IsGroupAdmin(groupUsers, reqs[1].args.group, reqs[1].args.authUser)
  /\ Cardinality(groupUsers) >= 3

\* C19: getIdFromName(name) resolves to the id of the Group that has the
\* name when there is one, and to null when there is none.
C19_GetIdFromNameReturnsId ==
  [][ \A p \in Procs :
        (reqs[p].pc = "idle" /\ reqs'[p].op = "getIdFromName") =>
          IF \E g \in groups : g.groupname = reqs'[p].args.name
          THEN \E g \in groups :
                 /\ g.groupname = reqs'[p].args.name
                 /\ reqs'[p].value = [type |-> "number", n |-> g.id]
          ELSE reqs'[p].value = [type |-> "null", n |-> 0]
    ]_vars

\* C5: a step of a call that creates a GroupUsers row, changes its admin
\* flag or destroys it is taken only while the call's acting user holds
\* global write or is an admin of the call's group.
C5_WriteOnlyWhileAuthorised ==
  [][ \A p \in Procs :
        ( /\ reqs[p].pc \in {"found", "selected"}
          /\ reqs[p].op \in {"addUserToGroup", "removeUserFromGroup"}
          /\ reqs'[p].pc # reqs[p].pc
          /\ groupUsers' # groupUsers )
        => \/ hasGlobalWrite(reqs[p].args.authUser)
           \/ IsGroupAdmin(groupUsers, reqs[p].args.group,
                           reqs[p].args.authUser) ]_vars

(***************************************************************************)
(* Event.query(user, startTime, endTime, deviceId, offset, limit)          *)
(*                                                                         *)
(* Times are 1..MaxTime; a startTime, endTime or deviceId that is not      *)
(* given (undefined, falsy in the handler's tests) is 0.  A limit that is  *)
(* not given is <<>>.  The handler awaits user.getWhereDeviceVisible() and *)
(* then findAndCountAll, which sends a COUNT and a SELECT; each of the     *)
(* three is a step, and writes of other requests run between them.         *)
(***************************************************************************)
EventIds == 1..NumEvents

\* The Events table: event e of device 1 + (e mod 2).
EventRow(e) ==
  [id |-> e, dateTime |-> 1 + ((e \div 2) % MaxTime), DeviceId |-> 1 + (e % 2)]

EventRows == {EventRow(e) : e \in EventIds}

\* Two registered devices, one in each group.
EventDevices ==
  {[id |-> d, devicename |-> <<"d", d>>, password |-> "p1", GroupId |-> d,
    saltId |-> <<d>>] : d \in {1, 2}}

\* The DeviceUsers table at start: at most one direct association of a
\* user with device 2.
DeviceUsersTables ==
  {{}} \cup {{[DeviceId |-> 2, UserId |-> u, admin |-> FALSE]} : u \in UserIds}

InitEvent ==
  /\ groups = GroupRows
  /\ groupUsers = {}
  /\ stations = StationRows
  /\ devices = EventDevices
  /\ call = NoCalls
  /\ reqs = [p \in Procs |-> IdleReq]
  /\ deviceUsers \in DeviceUsersTables
  /\ dreqs = [p \in DeviceReqs |-> IdleDeviceReq]
  /\ resp = NoResponse
  /\ events = EventRows
  /\ eventCall = IdleEventCall
  /\ recordings = RecordingRows
  /\ schema = MigratedSchema

\* where: the caller's conditions on dateTime (Op.gte startTime, Op.lt
\* endTime) and DeviceId, each there only when its argument is given.
EventUserWhere(e, startTime, endTime, deviceId) ==
  /\ (startTime # 0) => e.dateTime >= startTime
  /\ (endTime # 0) => e.dateTime < endTime
  /\ (deviceId # 0) => e.DeviceId = deviceId

\* user.getWhereDeviceVisible(): no condition for a user with global read
\* (all), else DeviceId among the ids of the devices the user may see, read
\* from the tables as they are at this await.
getWhereDeviceVisible(user) ==
  [all |-> hasGlobalRead(user),
   ids |-> {d.id : d \in VisibleDevices(devices, groupUsers, deviceUsers, user)}]

\* A variant whose where condition is the caller's alone.
EventWhereUserQueryOnly(e, visible, startTime, endTime, deviceId) ==
  EventUserWhere(e, startTime, endTime, deviceId)

\* {[Op.and]: [where, await user.getWhereDeviceVisible()]}
EventWhere(e, visible, startTime, endTime, deviceId) ==
  /\ EventUserWhere(e, startTime, endTime, deviceId)
  /\ (visible.all \/ e.DeviceId \in visible.ids)

\* order: ["dateTime"]: the orders of the rows of a set that ascend in
\* dateTime; rows of one dateTime come in any order.
OrderedByDateTime(rows) ==
  {s \in [1..Cardinality(rows) -> rows] :
     /\ \A i, j \in 1..Cardinality(rows) : i # j => s[i] # s[j]
     /\ \A i, j \in 1..Cardinality(rows) : i < j => s[i].dateTime <= s[j].dateTime}

Min(a, b) == IF a < b THEN a ELSE b

\* A variant of the paging that starts at the first row whatever the offset.
PageFromFirstRow(ordered, offset, limit) ==
  IF limit = <<>> THEN ordered
  ELSE SubSeq(ordered, 1, Min(Len(ordered), limit[1]))

\* limit and offset: at most limit rows from position offset on.
Page(ordered, offset, limit) ==
  IF limit = <<>> THEN SubSeq(ordered, offset + 1, Len(ordered))
  ELSE SubSeq(ordered, offset + 1, Min(Len(ordered), offset + limit[1]))

\* Event.query arrives, builds where from its arguments and runs to the end
\* of await user.getWhereDeviceVisible().
EventQuery(user, startTime, endTime, deviceId, offset, limit) ==
  /\ eventCall.pc = "idle"
  /\ eventCall' =
       [op |-> "query",
        args |-> [user |-> user, startTime |-> startTime, endTime |-> endTime,
                  deviceId |-> deviceId, offset |-> offset, limit |-> limit],
        pc |-> "visible",
        visible |-> getWhereDeviceVisible(user),
        counted |-> FALSE, selected |-> FALSE,
        value |-> [rows |-> <<>>, count |-> 0]]
  /\ UNCHANGED eventOthers

\* this.findAndCountAll({where, ...}), the COUNT: the number of the events
\* that match where, whatever limit and offset.
EventCount ==
  /\ eventCall.pc = "visible"
  /\ ~eventCall.counted
  /\ eventCall' =
       [eventCall EXCEPT
          !.counted = TRUE,
          !.value.count =
             Cardinality({e \in events :
                            EventWhere(e, eventCall.visible,
                                       eventCall.args.startTime,
                                       eventCall.args.endTime,
                                       eventCall.args.deviceId)}),
          !.pc = IF eventCall.selected THEN "ok" ELSE "visible"]
  /\ UNCHANGED eventOthers

\* this.findAndCountAll({where, order, limit, offset}), the SELECT.
EventFindAll ==
  /\ eventCall.pc = "visible"
  /\ ~eventCall.selected
  /\ \E ordered \in OrderedByDateTime(
         {e \in events : EventWhere(e, eventCall.visible,
                                    eventCall.args.startTime,
                                    eventCall.args.endTime,
                                    eventCall.args.deviceId)}) :
       eventCall' =
         [eventCall EXCEPT
            !.selected = TRUE,
            !.value.rows = Page(ordered, eventCall.args.offset,
                                eventCall.args.limit),
            !.pc = IF eventCall.counted THEN "ok" ELSE "visible"]
  /\ UNCHANGED eventOthers

\* The caller takes the result; the next call may arrive.
EventReturn ==
  /\ eventCall.pc = "ok"
  /\ eventCall' = IdleEventCall
  /\ UNCHANGED eventOthers

NextEvent ==
  \/ \E user \in UserIds, startTime \in 0..MaxTime, endTime \in 0..MaxTime,
        deviceId \in {0, 1, 2}, offset \in 0..MaxOffset,
        limit \in {<<>>} \cup {<<n>> : n \in 1..MaxLimit} :
       EventQuery(user, startTime, endTime, deviceId, offset, limit)
  \/ EventCount
  \/ EventFindAll
  \/ EventReturn
  \/ \E g \in ConcGroups, u \in UserIds : ConcurrentAddUser(g, u, FALSE)
  \/ \E g \in ConcGroups, u \in UserIds : ConcurrentRemoveUser(g, u)

SpecEvent == InitEvent /\ [][NextEvent]_vars

(***************************************************************************)
(* Properties of Event.query, under SpecEvent.                             *)
(***************************************************************************)
\* The device is in a group the user is a member of, or has a direct
\* association with the user, in the tables as they are.
DeviceVisibleTo(user, deviceId) ==
  \/ \E d \in devices, r \in groupUsers :
       d.id = deviceId /\ r.GroupId = d.GroupId /\ r.UserId = user
  \/ \E r \in deviceUsers : r.DeviceId = deviceId /\ r.UserId = user

\* C1: for a user without global read, the visibility condition of
\* Event.query names the devices that are visible to the user in the tables
\* at the await that reads it; every row the call returns is an event of
\* one of those devices, and count counts the events of those devices that
\* match the caller's conditions, and no other.
C1_QueryOnlyVisibleDevices ==
  /\ [] ( (eventCall.op = "query" /\ ~hasGlobalRead(eventCall.args.user)) =>
       /\ ~eventCall.visible.all
       /\ \A i \in 1..Len(eventCall.value.rows) :
            /\ eventCall.value.rows[i] \in events
            /\ eventCall.value.rows[i].DeviceId \in eventCall.visible.ids
       /\ eventCall.counted =>
            eventCall.value.count =
              Cardinality({e \in events :
                /\ EventUserWhere(e, eventCall.args.startTime,
                                  eventCall.args.endTime, eventCall.args.deviceId)
                /\ e.DeviceId \in eventCall.visible.ids}) )
  /\ [][ ( /\ eventCall.pc = "idle"
           /\ eventCall'.pc # "idle"
           /\ ~hasGlobalRead(eventCall'.args.user) ) =>
           eventCall'.visible.ids =
             {d.id : d \in {x \in devices :
                              DeviceVisibleTo(eventCall'.args.user, x.id)}} ]_vars

\* A user without global read who is a member of group 1 only, with no
\* direct association, has queried with no condition: the rows are the
\* events of device 1, and device 2 has events.
C1_Witness ==
  /\ eventCall.pc = "ok"
  /\ ~hasGlobalRead(eventCall.args.user)
  /\ eventCall.args.startTime = 0 /\ eventCall.args.endTime = 0
  /\ eventCall.args.deviceId = 0
  /\ eventCall.args.offset = 0 /\ eventCall.args.limit = <<>>
  /\ DeviceVisibleTo(eventCall.args.user, 1)
  /\ ~DeviceVisibleTo(eventCall.args.user, 2)
  /\ eventCall.visible.ids = {1}
  /\ \E e \in events : e.DeviceId = 2
  /\ eventCall.value.count >= 1
  /\ Len(eventCall.value.rows) = eventCall.value.count

\* The events that match the caller's conditions and the visibility
\* condition of the call in flight.
MatchSet ==
  {e \in events :
     EventWhere(e, eventCall.visible, eventCall.args.startTime,
                eventCall.args.endTime, eventCall.args.deviceId)}

\* The size of the page at offset, of at most limit rows, out of n rows.
PageSize(n, offset, limit) ==
  IF n <= offset THEN 0
  ELSE IF limit = <<>> THEN n - offset
  ELSE IF limit[1] < n - offset THEN limit[1] ELSE n - offset

\* C12: the rows Event.query returns ascend in dateTime, are distinct
\* events of the match set, are at most limit, and are the rows at
\* positions offset + 1 onward of an ascending order of the whole match
\* set (the offset rows before them are no later, the rows after them no
\* earlier); count is the size of the whole match set, whatever offset and
\* limit.
C12_PageAndCount ==
  eventCall.pc = "ok" =>
    LET rows == eventCall.value.rows
        k == Len(eventCall.value.rows)
        rest == MatchSet \ {eventCall.value.rows[i] :
                              i \in 1..Len(eventCall.value.rows)}
    IN /\ eventCall.value.count = Cardinality(MatchSet)
       /\ \A i, j \in 1..k : i < j =>
            /\ rows[i].dateTime <= rows[j].dateTime
            /\ rows[i] # rows[j]
       /\ \A i \in 1..k : rows[i] \in MatchSet
       /\ eventCall.args.limit # <<>> => k <= eventCall.args.limit[1]
       /\ k = PageSize(Cardinality(MatchSet), eventCall.args.offset,
                       eventCall.args.limit)
       /\ k > 0 =>
            \E before \in SUBSET rest :
              /\ Cardinality(before) = eventCall.args.offset
              /\ \A b \in before : b.dateTime <= rows[1].dateTime
              /\ \A a \in rest \ before : a.dateTime >= rows[k].dateTime

\* A user with global read has queried with no condition, offset 1 and
\* limit 1: one row came back, not the earliest event, and count is the
\* number of all events, two of which have one dateTime.
C12_Witness ==
  /\ eventCall.pc = "ok"
  /\ hasGlobalRead(eventCall.args.user)
  /\ eventCall.args.startTime = 0 /\ eventCall.args.endTime = 0
  /\ eventCall.args.deviceId = 0
  /\ eventCall.args.offset = 1 /\ eventCall.args.limit = <<1>>
  /\ Len(eventCall.value.rows) = 1
  /\ eventCall.value.count = Cardinality(events)
  /\ eventCall.value.count > 2
  /\ \E e \in events : e.dateTime < eventCall.value.rows[1].dateTime
  /\ \E e, f \in events : e # f /\ e.dateTime = f.dateTime

(***************************************************************************)
(* The device routes of api/V1/Device.ts.  POST /devices awaits three      *)
(* times (freeDevicename, Device.create, device.update); requests of other *)
(* callers run between two awaits.  GET /devices, POST /devices/users and  *)
(* DELETE /devices/users await once and respond.  POST /devices/reregister *)
(* awaits device.reregister, whose statements are not in the handler: it   *)
(* checks the new name and updates the Device row, in one statement or in  *)
(* several.                                                                *)
(***************************************************************************)
Devicenames == {"d1", "d2"}

Passwords == {"p1", "p2"}

\* The password and the group the requests of POST /devices register with.
RegisterPasswords == {"p1"}

RegisterGroups == {1}

\* The device that re-registers, and the group and the password it
\* re-registers with.
ReregisterDevices == {1}

ReregisterGroups == {2}

ReregisterPasswords == {"p2"}

\* The device and the users the requests of the /devices/users routes name.
DeviceUserDevices == {1}

DeviceUserTargets == {3}

\* models.Device.freeDevicename(devicename): no Device has the name.
freeDevicename(devs, devicename) ==
  ~\E d \in devs : d.devicename = devicename

\* The precondition of re-registration: the new name is unique among the
\* devices, the device that re-registers aside.
reregisterNameFree(devs, newName, id) ==
  ~\E d \in devs : d.devicename = newName /\ d.id # id

\* The id the auto-increment key gives to the next row.
NextDeviceId(devs) == Cardinality(devs) + 1

\* models.Device.create({devicename, password, GroupId})
DeviceCreate(devs, devicename, password, g) ==
  devs \cup {[id |-> NextDeviceId(devs), devicename |-> devicename,
               password |-> password, GroupId |-> g, saltId |-> <<>>]}

\* device.update({saltId: device.id})
DeviceUpdateSaltId(devs, id) ==
  {IF d.id = id THEN [d EXCEPT !.saltId = <<id>>] ELSE d : d \in devs}

\* The columns of Devices a re-registration writes.
ReregisterFields == {"devicename", "GroupId", "password"}

\* One UPDATE of device.reregister(newName, group, newPassword): the Device
\* row is updated in place, in the columns the statement names.
DeviceReregister(devs, id, fields, newName, g, newPassword) ==
  {IF d.id = id
   THEN [d EXCEPT
           !.devicename = IF "devicename" \in fields THEN newName ELSE @,
           !.GroupId = IF "GroupId" \in fields THEN g ELSE @,
           !.password = IF "password" \in fields THEN newPassword ELSE @]
   ELSE d : d \in devs}

\* auth.createEntityJWT(device): a token that holds the device's id and type.
createEntityJWT(id) == [_type |-> "device", id |-> id]

\* models.Device.allForUser(user)
allForUser(devs, gu, du, user) ==
  {[id |-> d.id, devicename |-> d.devicename, GroupId |-> d.GroupId] :
   d \in VisibleDevices(devs, gu, du, user)}

InitDevice ==
  /\ groups = GroupRows
  /\ groupUsers = {[GroupId |-> 1, UserId |-> 3, admin |-> FALSE]}
  /\ stations = StationRows
  /\ devices = {}
  /\ call = NoCalls
  /\ reqs = [p \in Procs |-> IdleReq]
  /\ deviceUsers = {}
  /\ dreqs = [p \in DeviceReqs |-> IdleDeviceReq]
  /\ resp = NoResponse
  /\ events = {}
  /\ eventCall = IdleEventCall
  /\ recordings = RecordingRows
  /\ schema = MigratedSchema

\* A variant of the handler without the freeDevicename check.
RegisterDeviceUnchecked(p, devicename, password, g) ==
  /\ resp = NoResponse
  /\ dreqs[p].pc = "idle"
  /\ dreqs' = [dreqs EXCEPT ![p] =
       [op |-> "register", pc |-> "checked", devicename |-> devicename,
        password |-> password, group |-> g, id |-> 0, written |-> {},
        response |-> <<>>]]
  /\ UNCHANGED <<devices, deviceUsers, resp, deviceOthers>>

\* POST /devices arrives and runs to the end of its first await:
\* if (!(await models.Device.freeDevicename(devicename))) the 422 is sent.
RegisterDevice(p, devicename, password, g) ==
  /\ resp = NoResponse
  /\ dreqs[p].pc = "idle"
  /\ dreqs' = [dreqs EXCEPT ![p] =
       IF ~freeDevicename(devices, devicename)
       THEN [op |-> "register", pc |-> "responded", devicename |-> devicename,
             password |-> password, group |-> g, id |-> 0, written |-> {},
             response |-> [statusCode |-> 422,
                           messages |-> <<"Device name in use.">>]]
       ELSE [op |-> "register", pc |-> "checked", devicename |-> devicename,
             password |-> password, group |-> g, id |-> 0, written |-> {},
             response |-> <<>>]]
  /\ UNCHANGED <<devices, deviceUsers, resp, deviceOthers>>

\* const device = await models.Device.create({...}): the INSERT of the row,
\* whatever the table holds by now.
CreateDevice(p) ==
  /\ resp = NoResponse
  /\ dreqs[p].pc = "checked"
  /\ Cardinality(devices) < MaxDevices
  /\ devices' = DeviceCreate(devices, dreqs[p].devicename,
                             dreqs[p].password, dreqs[p].group)
  /\ dreqs' = [dreqs EXCEPT ![p].pc = "created",
                            ![p].id = NextDeviceId(devices)]
  /\ UNCHANGED <<deviceUsers, resp, deviceOthers>>

\* The 200 of POST /devices.
registerResponse(id) ==
  [statusCode |-> 200, messages |-> <<"Created new device.">>, id |-> id,
   token |-> <<"JWT ", createEntityJWT(id)>>]

\* A variant that sends the 200 without the update of saltId.
UpdateSaltIdSkipped(p) ==
  /\ resp = NoResponse
  /\ dreqs[p].pc = "created"
  /\ dreqs' = [dreqs EXCEPT ![p].pc = "responded",
                            ![p].response = registerResponse(dreqs[p].id)]
  /\ UNCHANGED <<devices, deviceUsers, resp, deviceOthers>>

\* await device.update({saltId: device.id}), and the 200 is sent.
UpdateSaltId(p) ==
  /\ resp = NoResponse
  /\ dreqs[p].pc = "created"
  /\ devices' = DeviceUpdateSaltId(devices, dreqs[p].id)
  /\ dreqs' = [dreqs EXCEPT ![p].pc = "responded",
                            ![p].response = registerResponse(dreqs[p].id)]
  /\ UNCHANGED <<deviceUsers, resp, deviceOthers>>

\* await device.update({saltId: device.id}) rejects (the database is not
\* reachable, the statement fails): the handler throws after Device.create
\* has committed, no transaction undoes the INSERT, and the request ends
\* with the error response.
UpdateSaltIdFails(p) ==
  /\ resp = NoResponse
  /\ dreqs[p].pc = "created"
  /\ dreqs' = [dreqs EXCEPT
                ![p].pc = "responded",
                ![p].response = [statusCode |-> 500,
                                 messages |-> <<"SequelizeDatabaseError">>]]
  /\ UNCHANGED <<devices, deviceUsers, resp, deviceOthers>>

\* The response of POST /devices or of POST /devices/reregister has gone
\* out; the next request may arrive.
RegisterDone(p) ==
  /\ resp = NoResponse
  /\ dreqs[p].pc = "responded"
  /\ dreqs' = [dreqs EXCEPT ![p] = IdleDeviceReq]
  /\ UNCHANGED <<devices, deviceUsers, resp, deviceOthers>>

\* The 200 of POST /devices/reregister, for the device reregister returned.
reregisterResponse(device) ==
  [statusCode |-> 200, messages |-> <<"Registered the device again.">>,
   id |-> device.id, token |-> <<"JWT ", createEntityJWT(device.id)>>]

\* What the route sends when reregister refuses the new name: the response
\* of a validation error or of a throw.
ReregisterRefusals ==
  {[statusCode |-> 422, messages |-> <<"Device name in use.">>],
   [statusCode |-> 500, messages |-> <<"Error">>]}

\* POST /devices/reregister by the device with the given id: the handler
\* calls request.device.reregister(newName, group, newPassword), which
\* checks that no other device has the new name.  A name in use ends the
\* request with a refusal.
Reregister(p, id, newName, g, newPassword) ==
  /\ resp = NoResponse
  /\ dreqs[p].pc = "idle"
  /\ \E d \in devices : d.id = id
  /\ \E refusal \in ReregisterRefusals :
       dreqs' = [dreqs EXCEPT ![p] =
         [op |-> "reregister",
          pc |-> IF reregisterNameFree(devices, newName, id)
                 THEN "reregistering" ELSE "responded",
          devicename |-> newName, password |-> newPassword, group |-> g,
          id |-> id, written |-> {},
          response |-> IF reregisterNameFree(devices, newName, id)
                       THEN <<>> ELSE refusal]]
  /\ UNCHANGED <<devices, deviceUsers, resp, deviceOthers>>

\* One UPDATE of reregister: it writes some of the columns not yet
\* written, all three when reregister is a single statement.  When the
\* last column is written reregister resolves with the device, and the
\* handler sends the 200 with the id of that device and a token for it.
ReregisterWrite(p, fields) ==
  /\ resp = NoResponse
  /\ dreqs[p].pc = "reregistering"
  /\ fields # {}
  /\ fields \subseteq ReregisterFields \ dreqs[p].written
  /\ devices' = DeviceReregister(devices, dreqs[p].id, fields,
                                 dreqs[p].devicename, dreqs[p].group,
                                 dreqs[p].password)
  /\ dreqs' = [dreqs EXCEPT
       ![p].written = @ \cup fields,
       ![p].pc = IF dreqs[p].written \cup fields = ReregisterFields
                 THEN "responded" ELSE "reregistering",
       ![p].response =
         IF dreqs[p].written \cup fields = ReregisterFields
         THEN reregisterResponse(
                CHOOSE d \in DeviceReregister(devices, dreqs[p].id, fields,
                                              dreqs[p].devicename,
                                              dreqs[p].group,
                                              dreqs[p].password) :
                  d.id = dreqs[p].id)
         ELSE <<>>]
  /\ UNCHANGED <<deviceUsers, resp, deviceOthers>>

\* GET /devices by a user: const devices = await
\* models.Device.allForUser(request.user), and the 200 is sent.
GetDevices(user) ==
  /\ resp = NoResponse
  /\ resp' = [op |-> "getDevices", args |-> [user |-> user],
              response |-> [statusCode |-> 200,
                            messages |-> <<"Completed get devices query.">>,
                            devices |-> allForUser(devices, groupUsers,
                                                   deviceUsers, user)]]
  /\ UNCHANGED <<devices, deviceUsers, dreqs, deviceOthers>>

\* device.userPermissions(authUser): a user with global write, an admin of
\* the device, or an admin of the group the device belongs to.
deviceUserPermissions(devs, gu, du, authUser, deviceId) ==
  \/ hasGlobalWrite(authUser)
  \/ \E r \in du : r.DeviceId = deviceId /\ r.UserId = authUser /\ r.admin
  \/ \E d \in devs, r \in gu :
       d.id = deviceId /\ r.GroupId = d.GroupId /\ r.UserId = authUser /\ r.admin

\* The association of the user with the device is stored with the admin
\* value given: the row is updated when there is one and created when not.
DeviceAddUser(du, deviceId, user, admin) ==
  {r \in du : ~(r.DeviceId = deviceId /\ r.UserId = user)}
    \cup {[DeviceId |-> deviceId, UserId |-> user, admin |-> admin]}

\* Every association of the user with the device is deleted.
DeviceRemoveUser(du, deviceId, user) ==
  {r \in du : ~(r.DeviceId = deviceId /\ r.UserId = user)}

\* What the route sends when the caller may not change the associations of
\* the device: the 400 of a falsy return, or the error of a throw.
DeviceUserRefusals(message) ==
  {[statusCode |-> 400, messages |-> <<message>>],
   [statusCode |-> 403, messages |-> <<"AuthorizationError">>]}

\* POST /devices/users: const added = await
\* models.Device.addUserToDevice(request.user, request.body.device,
\* request.body.user, request.body.admin), and the response is sent.
AddUserToDevice(authUser, deviceId, user, admin) ==
  /\ resp = NoResponse
  /\ \E d \in devices : d.id = deviceId
  /\ IF deviceUserPermissions(devices, groupUsers, deviceUsers, authUser, deviceId)
     THEN /\ deviceUsers' = DeviceAddUser(deviceUsers, deviceId, user, admin)
          /\ resp' = [op |-> "addUserToDevice",
                      args |-> [authUser |-> authUser, device |-> deviceId,
                                user |-> user, admin |-> admin],
                      response |-> [statusCode |-> 200,
                                    messages |-> <<"Added user to device.">>]]
     ELSE /\ \E refusal \in DeviceUserRefusals("Failed to add user to device.") :
               resp' = [op |-> "addUserToDevice",
                        args |-> [authUser |-> authUser, device |-> deviceId,
                                  user |-> user, admin |-> admin],
                        response |-> refusal]
          /\ UNCHANGED deviceUsers
  /\ UNCHANGED <<devices, dreqs, deviceOthers>>

\* DELETE /devices/users: const removed = await
\* models.Device.removeUserFromDevice(request.user, request.body.device,
\* request.body.user), and the response is sent.
RemoveUserFromDevice(authUser, deviceId, user) ==
  /\ resp = NoResponse
  /\ \E d \in devices : d.id = deviceId
  /\ IF deviceUserPermissions(devices, groupUsers, deviceUsers, authUser, deviceId)
     THEN /\ deviceUsers' = DeviceRemoveUser(deviceUsers, deviceId, user)
          /\ resp' = [op |-> "removeUserFromDevice",
                      args |-> [authUser |-> authUser, device |-> deviceId,
                                user |-> user],
                      response |-> [statusCode |-> 200,
                                    messages |-> <<"Removed user from the device.">>]]
     ELSE /\ \E refusal \in
               DeviceUserRefusals("Failed to remove user from the device.") :
               resp' = [op |-> "removeUserFromDevice",
                        args |-> [authUser |-> authUser, device |-> deviceId,
                                  user |-> user],
                        response |-> refusal]
          /\ UNCHANGED deviceUsers
  /\ UNCHANGED <<devices, dreqs, deviceOthers>>

\* The response of a route that awaits once has gone out.
ResponseSent ==
  /\ resp # NoResponse
  /\ resp' = NoResponse
  /\ UNCHANGED <<devices, deviceUsers, dreqs, deviceOthers>>

NextDevice ==
  \/ \E p \in DeviceReqs, n \in Devicenames, pw \in RegisterPasswords,
        g \in RegisterGroups :
       RegisterDevice(p, n, pw, g)
  \/ \E p \in DeviceReqs : CreateDevice(p)
  \/ \E p \in DeviceReqs : UpdateSaltId(p)
  \/ \E p \in DeviceReqs : UpdateSaltIdFails(p)
  \/ \E p \in DeviceReqs : RegisterDone(p)
  \/ \E p \in DeviceReqs, id \in ReregisterDevices, n \in Devicenames,
        g \in ReregisterGroups, pw \in ReregisterPasswords :
       Reregister(p, id, n, g, pw)
  \/ \E p \in DeviceReqs, fields \in SUBSET ReregisterFields :
       ReregisterWrite(p, fields)
  \/ \E user \in UserIds : GetDevices(user)
  \/ \E authUser \in UserIds, id \in DeviceUserDevices,
        user \in DeviceUserTargets, admin \in BOOLEAN :
       AddUserToDevice(authUser, id, user, admin)
  \/ \E authUser \in UserIds, id \in DeviceUserDevices,
        user \in DeviceUserTargets :
       RemoveUserFromDevice(authUser, id, user)
  \/ ResponseSent

SpecDevice == InitDevice /\ [][NextDevice]_vars

(***************************************************************************)
(* Properties of the device routes, under SpecDevice.                      *)
(***************************************************************************)
\* C6: POST /devices with a devicename a Device row holds answers 422 with
\* the message "Device name in use.", creates no Device row and changes
\* none.
C6_NameInUseIs422 ==
  [][ \A p \in DeviceReqs :
        ( /\ dreqs[p].pc = "idle"
          /\ dreqs'[p].op = "register"
          /\ \E d \in devices : d.devicename = dreqs'[p].devicename )
        => ( /\ dreqs'[p].pc = "responded"
             /\ dreqs'[p].response.statusCode = 422
             /\ dreqs'[p].response.messages = <<"Device name in use.">>
             /\ devices' = devices ) ]_vars

\* A POST /devices for the name of a stored device has been answered 422.
C6_Witness ==
  \E p \in DeviceReqs :
    /\ dreqs[p].op = "register"
    /\ dreqs[p].pc = "responded"
    /\ dreqs[p].response.statusCode = 422
    /\ \E d \in devices : d.devicename = dreqs[p].devicename

\* C7: at most one Device row holds a given devicename in every reachable
\* state, whatever the interleaving of the POST /devices requests.
C7_DevicenamesUnique ==
  \A a, b \in devices : a.devicename = b.devicename => a = b

\* C15: registration is two writes.  The step of Device.create adds one
\* row whose saltId is not set and changes no other row; the step of
\* device.update sets the saltId of that row to its id and nothing else.
\* Between the two the row is in the table with saltId not set, and it
\* stays so when the update fails.  Once the 200 is sent, the row of the
\* response's id has saltId equal to its id, and the response carries the
\* id of the row created and a token for it.
C15_TwoWritesThenSaltId ==
  /\ [] \A p \in DeviceReqs :
       dreqs[p].op = "register" =>
         /\ dreqs[p].pc = "created" =>
              \E d \in devices : d.id = dreqs[p].id /\ d.saltId = <<>>
         /\ ( /\ dreqs[p].pc = "responded"
              /\ dreqs[p].response.statusCode = 500
              /\ dreqs[p].id # 0 ) =>
              \E d \in devices : d.id = dreqs[p].id /\ d.saltId = <<>>
         /\ ( /\ dreqs[p].pc = "responded"
              /\ dreqs[p].response.statusCode = 200 ) =>
              /\ dreqs[p].response.id = dreqs[p].id
              /\ dreqs[p].response.token =
                   <<"JWT ", createEntityJWT(dreqs[p].id)>>
              /\ \E d \in devices : d.id = dreqs[p].id /\ d.saltId = <<d.id>>
  /\ [][ \A p \in DeviceReqs :
           /\ (dreqs[p].pc = "checked" /\ dreqs'[p].pc = "created") =>
                /\ devices \subseteq devices'
                /\ devices' \ devices =
                     {[id |-> dreqs'[p].id, devicename |-> dreqs[p].devicename,
                       password |-> dreqs[p].password,
                       GroupId |-> dreqs[p].group, saltId |-> <<>>]}
           /\ ( /\ dreqs[p].pc = "created"
                /\ dreqs'[p].pc = "responded"
                /\ dreqs'[p].response.statusCode = 200 ) =>
                devices' = {IF d.id = dreqs[p].id
                            THEN [d EXCEPT !.saltId = <<d.id>>] ELSE d :
                            d \in devices} ]_vars

\* GET /devices has returned two devices whose saltId is not set: the
\* device of a registration that is between its two writes, and the device
\* a registration left behind when its update failed.
C15_Witness ==
  /\ resp.op = "getDevices"
  /\ \E p, q \in DeviceReqs :
       /\ p # q
       /\ dreqs[p].op = "register"
       /\ dreqs[q].op = "register"
       /\ dreqs[p].pc = "created"
       /\ dreqs[q].pc = "responded"
       /\ dreqs[q].response.statusCode = 500
       /\ dreqs[q].id # 0
       /\ \E a, b \in devices :
            /\ a.id = dreqs[p].id /\ a.saltId = <<>>
            /\ b.id = dreqs[q].id /\ b.saltId = <<>>
            /\ {a.id, b.id} \subseteq {row.id : row \in resp.response.devices}
(***************************************************************************)
(* The migration 20210120160000-create-stations.js, run by sequelize       *)
(* db:migrate (up) and sequelize db:migrate:undo (down).  A migration runs *)
(* outside a transaction: a statement that fails ends it with the          *)
(* statements before it applied, and the record of its being applied is    *)
(* written (up) or deleted (down) only when it ends without error.  Every  *)
(* statement is awaited: between two of them the database is in the state  *)
(* the first has left, and another command may run.  The database is       *)
(* PostgreSQL.                                                             *)
(***************************************************************************)
\* What a migration leaves alone: the requests, and the rows of the tables
\* other than Groups.  The rows of Groups go with the table when it is
\* dropped.
migrationOthers == <<groupUsers, stations, devices, reqs, deviceUsers,
                     dreqs, resp, events, eventCall, recordings>>

\* The schemas before the migration is applied: Groups is there, Stations
\* is not, any of the other tables are, with any of the belongs-to links
\* between tables that are there.
PriorSchemas ==
  {sch \in [tables : SUBSET TableNames, links : SUBSET BelongsToLinks,
            applied : {FALSE}] :
     /\ "Groups" \in sch.tables
     /\ "Stations" \notin sch.tables
     /\ \A l \in sch.links : l[1] \in sch.tables /\ l[2] \in sch.tables}

\* queryInterface.createTable(name, ...): CREATE TABLE IF NOT EXISTS.
createTable(sch, name) ==
  [ok |-> TRUE, schema |-> [sch EXCEPT !.tables = @ \cup {name}]]

\* util.migrationAddBelongsTo(queryInterface, child, parent): the child gets
\* a column that references the parent.  It fails when one of the tables
\* is missing or the column is there already.
migrationAddBelongsTo(sch, child, parent) ==
  IF child \notin sch.tables \/ parent \notin sch.tables
       \/ <<child, parent>> \in sch.links
  THEN [ok |-> FALSE, schema |-> sch]
  ELSE [ok |-> TRUE, schema |-> [sch EXCEPT !.links = @ \cup {<<child, parent>>}]]

\* util.migrationRemoveBelongsTo(queryInterface, child, parent): the column
\* is removed.  It fails when the column is not there.
migrationRemoveBelongsTo(sch, child, parent) ==
  IF <<child, parent>> \notin sch.links
  THEN [ok |-> FALSE, schema |-> sch]
  ELSE [ok |-> TRUE, schema |-> [sch EXCEPT !.links = @ \ {<<child, parent>>}]]

\* queryInterface.dropTable(name): DROP TABLE IF EXISTS, without CASCADE.
\* It fails while a column of another table references the table; the
\* table's own columns go with it.
dropTable(sch, name) ==
  IF \E l \in sch.links : l[2] = name /\ l[1] # name
  THEN [ok |-> FALSE, schema |-> sch]
  ELSE [ok |-> TRUE,
        schema |-> [sch EXCEPT !.tables = @ \ {name},
                               !.links = {l \in @ : l[1] # name}]]

\* up: createTable("Stations", ...), then
\* migrationAddBelongsTo(queryInterface, "Stations", "Groups").
up(sch) ==
  migrationAddBelongsTo(createTable(sch, "Stations").schema, "Stations", "Groups")

\* down: migrationRemoveBelongsTo(queryInterface, "Stations", "Groups"),
\* then dropTable("Groups").
down(sch) ==
  IF ~migrationRemoveBelongsTo(sch, "Stations", "Groups").ok
  THEN [ok |-> FALSE, schema |-> sch]
  ELSE dropTable(migrationRemoveBelongsTo(sch, "Stations", "Groups").schema,
                 "Groups")

\* Before up: Groups holds its rows, and the other tables, those that are
\* there, hold none.
InitMigration ==
  /\ groups = GroupRows
  /\ groupUsers = {}
  /\ stations = {}
  /\ devices = {}
  /\ call = NoCalls
  /\ reqs = [p \in Procs |-> IdleReq]
  /\ deviceUsers = {}
  /\ dreqs = [p \in DeviceReqs |-> IdleDeviceReq]
  /\ resp = NoResponse
  /\ events = {}
  /\ eventCall = IdleEventCall
  /\ recordings = {}
  /\ schema \in PriorSchemas

\* A command in flight, about to run the statement named by status.
MigrationCall(op, status) ==
  [op |-> op, args |-> <<>>, status |-> status, value |-> <<>>]

\* sequelize db:migrate: the command reads the record of applied migrations
\* and runs up when the migration is not recorded.
MigrateUp(c) ==
  /\ call[c] = NoCall
  /\ ~schema.applied
  /\ call' = [call EXCEPT ![c] = MigrationCall("db:migrate", "createTable")]
  /\ UNCHANGED <<schema, groups, migrationOthers>>

\* up, first statement: await queryInterface.createTable("Stations", ...).
\* Afterwards the table is there, not linked, and the migration is not
\* recorded.
UpCreateTable(c) ==
  /\ call[c].op = "db:migrate"
  /\ call[c].status = "createTable"
  /\ schema' = createTable(schema, "Stations").schema
  /\ call' = [call EXCEPT ![c].status = "addBelongsTo"]
  /\ UNCHANGED <<groups, migrationOthers>>

\* up, second statement: await util.migrationAddBelongsTo(queryInterface,
\* "Stations", "Groups").  up ends here; the migration is recorded as
\* applied when the statement did not fail, and the table stays when it did.
UpAddBelongsTo(c) ==
  /\ call[c].op = "db:migrate"
  /\ call[c].status = "addBelongsTo"
  /\ LET r == migrationAddBelongsTo(schema, "Stations", "Groups")
     IN /\ schema' = [r.schema EXCEPT !.applied = @ \/ r.ok]
        /\ call' = [call EXCEPT ![c].status = IF r.ok THEN "ok" ELSE "error"]
  /\ UNCHANGED <<groups, migrationOthers>>

\* sequelize db:migrate:undo: the command reads the record of applied
\* migrations and runs down when the migration is recorded.
MigrateUndo(c) ==
  /\ call[c] = NoCall
  /\ schema.applied
  /\ call' = [call EXCEPT
                ![c] = MigrationCall("db:migrate:undo", "removeBelongsTo")]
  /\ UNCHANGED <<schema, groups, migrationOthers>>

\* down, first statement: await util.migrationRemoveBelongsTo(queryInterface,
\* "Stations", "Groups").  When it fails down ends in error; otherwise the
\* link is gone, Groups is still there and the migration is still recorded.
DownRemoveBelongsTo(c) ==
  /\ call[c].op = "db:migrate:undo"
  /\ call[c].status = "removeBelongsTo"
  /\ LET r == migrationRemoveBelongsTo(schema, "Stations", "Groups")
     IN /\ schema' = r.schema
        /\ call' = [call EXCEPT
                      ![c].status = IF r.ok THEN "dropTable" ELSE "error"]
  /\ UNCHANGED <<groups, migrationOthers>>

\* down, second statement: await queryInterface.dropTable("Groups").  down
\* ends here.  When the statement did not fail the table is gone with its
\* rows and the record of the migration is deleted; when it failed the
\* link stays removed.
DownDropTable(c) ==
  /\ call[c].op = "db:migrate:undo"
  /\ call[c].status = "dropTable"
  /\ LET r == dropTable(schema, "Groups")
     IN /\ schema' = [r.schema EXCEPT !.applied = @ /\ ~r.ok]
        /\ groups' = IF r.ok THEN {} ELSE groups
        /\ call' = [call EXCEPT ![c].status = IF r.ok THEN "ok" ELSE "error"]
  /\ UNCHANGED migrationOthers

\* The command has ended; the next may start.
MigrationDone(c) ==
  /\ call[c].status \in {"ok", "error"}
  /\ call' = [call EXCEPT ![c] = NoCall]
  /\ UNCHANGED <<schema, groups, migrationOthers>>

\* The commands run as separate processes on the one database, with no
\* lock between them.
NextMigration ==
  \E c \in MigrationCommands :
    \/ MigrateUp(c)
    \/ UpCreateTable(c)
    \/ UpAddBelongsTo(c)
    \/ MigrateUndo(c)
    \/ DownRemoveBelongsTo(c)
    \/ DownDropTable(c)
    \/ MigrationDone(c)

SpecMigration == InitMigration /\ [][NextMigration]_vars

\* C18: db:migrate:undo of the create-stations migration ends without
\* error and undoes its up: when the command ends, the Stations table and
\* its link to Groups are gone, every other table that was there (Groups
\* among them) is still there, and the migration is no longer recorded as
\* applied, so that up can run again.
C18_DownUndoesUp ==
  [][ \A c \in MigrationCommands :
        ( /\ call[c].op = "db:migrate:undo"
          /\ call[c].status \in {"removeBelongsTo", "dropTable"}
          /\ call'[c].status \in {"ok", "error"} ) =>
            /\ call'[c].status = "ok"
            /\ "Stations" \notin schema'.tables
            /\ <<"Stations", "Groups">> \notin schema'.links
            /\ schema.tables \ {"Stations"} \subseteq schema'.tables
            /\ "Groups" \in schema'.tables
            /\ ~schema'.applied
            /\ up(schema').ok ]_vars

====
